---- MODULE Spec2Model ----
(***************************************************************************)
(* InsightBot hybrid scraper (src/insightbot_hybrid_scraper.py).           *)
(*                                                                         *)
(* Text is modelled as a sequence of one-character strings, so that the    *)
(* substring, suffix and regular-expression tests of the link classifier   *)
(* are computed on the characters of the URL as the code computes them.    *)
(***************************************************************************)
EXTENDS Integers, Sequences, FiniteSets, TLC

VARIABLES
    pa_href,      \* is_probable_article: the href argument
    pa_text,      \* is_probable_article: the word count of the anchor_text argument
    pa_pc,        \* "start" before the call, "done" after it
    pa_verdict,   \* the returned boolean
    lk_site,      \* collect_article_links: site_url
    lk_r,         \* what fetch_url returned for the listing page
    lk_limit,     \* the limit argument
    lk_pc,        \* "start" before the call, "done" after it
    lk_links,     \* the returned list
    ft_retries,   \* fetch_url: the retries argument
    ft_pc,        \* "loop" inside the for loop, "done" once fetch_url returned
    ft_log,       \* one entry per session.get issued: the User-Agent and the outcome
    ft_result,    \* the returned value
    ex_url,       \* extract_article: the url argument
    ex_r,         \* what fetch_url returns for it
    ex_boom,      \* whether parsing the page raises
    ex_pc,        \* "start" before the call, "done" after it
    ex_out,       \* whether an exception escaped, and the returned Article or None
    run_pc,       \* run_scraper: "idle", "site" (head of the site loop), "links" (link loop),
                  \* "crashed" (an exception escaped run_scraper)
    runs,         \* how many times run_scraper was started
    per_site_limit,   \* args.per_site
    site_i,       \* index into sites of the site being processed
    candidate_links,  \* scrape_all: candidate_links of the current site
    link_i,       \* index of the next link of candidate_links
    extracted,    \* scrape_all: extracted
    results,      \* scrape_all: results
    articles,     \* the articles table, as committed: its rows in insertion order
    prev_articles,    \* the articles table before the last save_to_mysql_batch call
    last_batch,   \* the records handed to the last save_to_mysql_batch call
    db_conn,      \* the connection of the last call: "none", "closed" or "open" (leaked)
    tried,        \* history: extract_article calls made for the site being processed
    visited,      \* history: the indexes of the sites this run has begun, in order
    accepted,     \* history: the articles this run has accepted, in acceptance order
    handed,       \* history: the batches this run has handed to save_to_mysql_batch
    sv_records,   \* save_to_mysql_batch: the records argument
    sv_pc,        \* the statement it is at: "call", "connect", "cursor", "ensure_table",
                  \* "executemany", "commit", "except", "finally"; "done" once it returned
    sv_conn,      \* conn: "none" (unbound), "open" or "closed"
    sv_cursor,    \* cursor: "none" (unbound), "open" or "closed"
    sv_table,     \* the articles table as committed
    sv_txn,       \* the articles table as the open transaction sees it
    sv_before,    \* history: the committed table when save_to_mysql_batch was called
    sv_error,     \* history: the step that raised, "none" when none did
    nd_raw,       \* normalize_date_to_mysql: dt_raw, as the timestamp dateutil reads in it
    nd_pc,        \* "start", "normalized" (extraction returned), "renormalized" (scrape_all)
    nd_out,       \* the published value extraction returns
    nd_again      \* the published value scrape_all leaves in the article

pa_vars == <<pa_href, pa_text, pa_pc, pa_verdict>>
lk_vars == <<lk_site, lk_r, lk_limit, lk_pc, lk_links>>
ft_vars == <<ft_retries, ft_pc, ft_log, ft_result>>
ex_vars == <<ex_url, ex_r, ex_boom, ex_pc, ex_out>>
run_vars ==
    <<run_pc, runs, per_site_limit, site_i, candidate_links, link_i, extracted, results,
      articles, prev_articles, last_batch, db_conn, tried, visited, accepted, handed>>
sv_vars ==
    <<sv_records, sv_pc, sv_conn, sv_cursor, sv_table, sv_txn, sv_before, sv_error>>
nd_vars == <<nd_raw, nd_pc, nd_out, nd_again>>
vars ==
    <<pa_href, pa_text, pa_pc, pa_verdict, lk_site, lk_r, lk_limit, lk_pc, lk_links,
      ft_retries, ft_pc, ft_log, ft_result, ex_url, ex_r, ex_boom, ex_pc, ex_out,
      run_pc, runs, per_site_limit, site_i, candidate_links, link_i, extracted, results,
      articles, prev_articles, last_batch, db_conn, tried, visited, accepted, handed,
      sv_records, sv_pc, sv_conn, sv_cursor, sv_table, sv_txn, sv_before, sv_error,
      nd_raw, nd_pc, nd_out, nd_again>>

\* ---------------------------------------------------------------- bounds

MaxWords == 5      \* words of an anchor text
MaxAnchors == 3    \* anchors of a listing page
MaxLimit == 3      \* the limit handed to collect_article_links
MaxRetries == 2    \* the largest retries argument fetch_url is called with
MaxParas == 4      \* paragraphs of the main block of an article page
MaxRuns == 2       \* runs of run_scraper (the first one and the scheduled ones)
MaxPerSite == 1    \* the largest --per-site

\* fetch_url's result: a 200 response with its parsed content, or None
Response(content) == [ok |-> TRUE, content |-> content]
NoResponse == [ok |-> FALSE, content |-> <<>>]

\* ------------------------------------------------------------------ text

Min(a, b) == IF a <= b THEN a ELSE b

\* the least and the greatest element of a non-empty set of numbers
MinOf(S) == CHOOSE i \in S : \A j \in S : i <= j
MaxOf(S) == CHOOSE i \in S : \A j \in S : i >= j

\* p in s  (Python substring test)
Contains(s, p) ==
    \E i \in 0..(Len(s) - Len(p)) : SubSeq(s, i + 1, i + Len(p)) = p

\* s.endswith(p)
EndsWith(s, p) ==
    Len(s) >= Len(p) /\ SubSeq(s, Len(s) - Len(p) + 1, Len(s)) = p

\* s.startswith(p)
StartsWith(s, p) ==
    Len(s) >= Len(p) /\ SubSeq(s, 1, Len(p)) = p

\* s.count(c) for a one-character c
Count(s, c) == Cardinality({i \in 1..Len(s) : s[i] = c})

\* index of the first character of s that is in cs, Len(s)+1 when there is none
FirstOf(s, cs) ==
    IF \E i \in 1..Len(s) : s[i] \in cs
    THEN CHOOSE i \in 1..Len(s) : s[i] \in cs /\ \A j \in 1..(i - 1) : s[j] \notin cs
    ELSE Len(s) + 1

UpperChars == <<"A","B","C","D","E","F","G","H","I","J","K","L","M","N","O","P","Q","R","S","T","U","V","W","X","Y","Z">>
LowerChars == <<"a","b","c","d","e","f","g","h","i","j","k","l","m","n","o","p","q","r","s","t","u","v","w","x","y","z">>
Digits == {"0","1","2","3","4","5","6","7","8","9"}

LowerChar(c) ==
    IF \E i \in 1..26 : UpperChars[i] = c
    THEN LowerChars[CHOOSE i \in 1..26 : UpperChars[i] = c]
    ELSE c

\* str.lower()
Lower(s) == [i \in 1..Len(s) |-> LowerChar(s[i])]

\* ------------------------------------------------------------- fetch_url

HEADERS_POOL == {"Chrome/115.0", "Safari/605.1.15", "Chrome/88.0"}
DefaultRetries == 2

\* what one session.get can do: answer 200, answer another status, or raise
\* (connection error, timeout after `timeout` seconds)
GetOutcomes == {"200", "404", "503", "raise"}

\* mutant: one iteration too many, range(retries+2)
MaxAttempts_OneMore(retries) == retries + 2

\* for attempt in range(retries+1)
MaxAttempts(retries) == retries + 1

\* if r.status_code == 200: return r
Returns200(outcome) == outcome = "200"

\* One iteration of the loop: rotate the User-Agent, GET, return on 200,
\* otherwise log, sleep and go on; after the last iteration return None.
FetchAttempt(ua, outcome) ==
    /\ ft_pc = "loop"
    /\ Len(ft_log) < MaxAttempts(ft_retries)
    /\ ft_log' = Append(ft_log, [ua |-> ua, outcome |-> outcome])
    /\ IF Returns200(outcome)
       THEN ft_pc' = "done" /\ ft_result' = Response(<<>>)
       ELSE IF Len(ft_log') < MaxAttempts(ft_retries)
            THEN ft_pc' = "loop" /\ ft_result' = ft_result
            ELSE ft_pc' = "done" /\ ft_result' = NoResponse
    /\ UNCHANGED ft_retries


BAD_EXT ==
    { <<"j","p","g">>, <<"j","p","e","g">>, <<"p","n","g">>, <<"g","i","f">>, <<"s","v","g">>, <<"p","d","f">>, <<"m","p","4">>, <<"m","p","3">>,
      <<"z","i","p">>, <<"r","s","s">>, <<"i","c","o">> }

\* BAD_EXT_RE.match(s): ".*\.(jpg|...|ico)$" anchored at the start by match()
BAD_EXT_RE(s) == \E e \in BAD_EXT : EndsWith(s, <<".">> \o e)

BAD_SUBSTRINGS ==
    { <<"m","a","i","l","t","o",":">>, <<"t","e","l",":">>, <<"#">>, <<"s","i","g","n","u","p">>, <<"l","o","g","i","n">>, <<"t","e","r","m","s">>,
      <<"p","r","i","v","a","c","y">>, <<"j","a","v","a","s","c","r","i","p","t",":">> }

SECTION_HINTS ==
    { <<"/","s","e","c","t","i","o","n","/">>, <<"/","t","o","p","i","c","/">>, <<"/","t","a","g","/">>, <<"/","t","a","g","s","/">>, <<"/","c","a","t","e","g","o","r","y","/">>,
      <<"/","c","a","t","e","g","o","r","i","e","s","/">>, <<"/","t","o","p","i","c","s","/">>, <<"/","c","o","l","l","e","c","t","i","o","n","s","/">>, <<"/","s","e","r","i","e","s","/">> }

POSITIVE_SIGNS ==
    { <<"/","n","e","w","s","/">>, <<"/","a","r","t","i","c","l","e","/">>, <<"/","s","t","o","r","y","/">>, <<"/","w","o","r","l","d","/">>, <<"/","p","o","l","i","t","i","c","s","/">>,
      <<"/","b","u","s","i","n","e","s","s","/">>, <<"/","2","0","2">> }

\* ------------------------------------------------------------------ URLs

\* s up to, and s from, its first character that is in cs
Before(s, cs) == SubSeq(s, 1, FirstOf(s, cs) - 1)
From(s, cs) == SubSeq(s, FirstOf(s, cs), Len(s))

\* the scheme of a URL ends at its first ":", at index c, when that is not the
\* first character and precedes any of / ? #; 0 when the URL has no scheme
SchemeColon(u, c) ==
    IF c > 1 /\ c <= Len(u) /\ c < FirstOf(u, {"/", "?", "#"}) THEN c ELSE 0

HasScheme(u) == SchemeColon(u, FirstOf(u, {":"})) # 0

AfterScheme(u) == SubSeq(u, SchemeColon(u, FirstOf(u, {":"})) + 1, Len(u))

\* what follows the "//" of a scheme-less remainder that has a network location
SkipSlashes(rest) == IF StartsWith(rest, <<"/","/">>) THEN SubSeq(rest, 3, Len(rest)) ELSE <<>>

AfterSlashes(u) == SkipSlashes(AfterScheme(u))

\* urlparse(u).netloc
Netloc(u) == Before(AfterSlashes(u), {"/", "?", "#"})

\* path, query and fragment of a scheme-less remainder
PathOnward(rest) ==
    IF StartsWith(rest, <<"/","/">>) THEN From(SubSeq(rest, 3, Len(rest)), {"/", "?", "#"})
    ELSE rest

\* urlparse(u).path
UrlPath(u) == Before(PathOnward(AfterScheme(u)), {"?", "#"})

\* where r"/\d{4}/\d{2}/\d{2}/" matches at index i of path
DatePathAt(path, i) ==
    /\ i + 11 <= Len(path)
    /\ path[i] = "/" /\ path[i + 5] = "/" /\ path[i + 8] = "/" /\ path[i + 11] = "/"
    /\ \A k \in {1, 2, 3, 4, 6, 7, 9, 10} : path[i + k] \in Digits

\* re.search(r"/\d{4}/\d{2}/\d{2}/", path)
HasDatePath(path) == \E i \in 1..(Len(path) - 11) : DatePathAt(path, i)

\* ------------------------------------------------- is_probable_article

\* The three rejection rules the specification names.
RejectedByExtension(href_l) == BAD_EXT_RE(href_l)
RejectedBySubstring(href_l) == \E b \in BAD_SUBSTRINGS : Contains(href_l, b)
RejectedBySection(path) == \E seg \in SECTION_HINTS : Contains(path, seg)
\* The fourth rule of the code: a short path that ends in "/".
RejectedByShallowDir(path) == EndsWith(path, <<"/">>) /\ Count(path, "/") <= 3

HyphenSlug(path) == Count(path, "-") >= 2 /\ Len(path) > 25

\* mutant: the anchor-text acceptance is lost
AcceptedByAnchorText_Never(anchor_words) == FALSE

\* len(anchor_text.strip().split()) >= 4; anchor_text is modelled by its word count
AcceptedByAnchorText(anchor_words) == anchor_words >= 4

\* the tests of is_probable_article on href_l = href.lower() and
\* path = urlparse(href_l).path, in the order of the code
ProbableVerdict(href_l, path, anchor_words) ==
    IF RejectedByExtension(href_l) \/ RejectedBySubstring(href_l) THEN FALSE
    ELSE IF RejectedBySection(path) THEN FALSE
    ELSE IF RejectedByShallowDir(path) THEN FALSE
    ELSE IF HasDatePath(path) THEN TRUE
    ELSE IF \E k \in POSITIVE_SIGNS : Contains(href_l, k) THEN TRUE
    ELSE IF HyphenSlug(path) THEN TRUE
    ELSE IF AcceptedByAnchorText(anchor_words) THEN TRUE
    ELSE FALSE

is_probable_article(href, anchor_words) ==
    IF href = <<>> THEN FALSE
    ELSE ProbableVerdict(Lower(href), UrlPath(Lower(href)), anchor_words)

\* ------------------------------------------------------ listing pages

\* TRAINING_SITES / TESTING_SITES entries used as site_url
SITE_DW == <<"h","t","t","p","s",":","/","/","w","w","w",".","d","w",".","c","o","m">>
SITE_F24 == <<"h","t","t","p","s",":","/","/","w","w","w",".","f","r","a","n","c","e","2","4",".","c","o","m">>
Sites == <<SITE_DW, SITE_F24>>
SiteSet == {Sites[i] : i \in 1..Len(Sites)}

\* href attributes found on listing pages
HREF_dated == <<"/","2","0","2","4","/","0","1","/","0","5","/","s","t","o","r","m","-","h","i","t","s","-","c","o","a","s","t">>
HREF_news == <<"/","n","e","w","s","/","b","u","d","g","e","t">>
HREF_slug == <<"/","m","a","r","k","e","t","s","-","r","a","l","l","y","-","a","s","-","i","n","f","l","a","t","i","o","n","-","c","o","o","l","s","-","a","g","a","i","n">>
HREF_about == <<"/","a","b","o","u","t">>
HREF_worlddir == <<"/","w","o","r","l","d","/">>
HREF_tagslug == <<"/","t","a","g","/","e","l","e","c","t","i","o","n","-","r","e","s","u","l","t","s","-","l","i","v","e","-","u","p","d","a","t","e","s","-","2","0","2","4">>
HREF_pdfslug == <<"/","f","i","l","e","s","/","a","n","n","u","a","l","-","r","e","p","o","r","t","-","f","o","r","-","i","n","v","e","s","t","o","r","s","-","2","0","2","3",".","P","D","F">>
HREF_login == <<"/","l","o","g","i","n">>
HREF_frag == <<"#","t","o","p">>
HREF_cnn == <<"h","t","t","p","s",":","/","/","e","d","i","t","i","o","n",".","c","n","n",".","c","o","m","/","2","0","2","4","/","0","1","/","0","5","/","p","o","l","i","t","i","c","s","/","s","e","n","a","t","e","-","v","o","t","e">>
HREF_nyt == <<"h","t","t","p","s",":","/","/","w","w","w",".","n","y","t","i","m","e","s",".","c","o","m","/","2","0","2","4","/","0","1","/","0","5","/","w","o","r","l","d","/","e","u","r","o","p","e","/","t","a","l","k","s",".","h","t","m","l">>
HREF_bbc == <<"h","t","t","p","s",":","/","/","w","w","w",".","b","b","c",".","c","o","m","/","n","e","w","s","/","w","o","r","l","d","-","e","u","r","o","p","e","-","6","7","8","9","0","1","2","3">>
HREF_guardian == <<"h","t","t","p","s",":","/","/","w","w","w",".","t","h","e","g","u","a","r","d","i","a","n",".","c","o","m","/","w","o","r","l","d","/","2","0","2","4","/","j","a","n","/","0","5","/","t","a","l","k","s","-","r","e","s","u","m","e">>
HREF_reuters == <<"h","t","t","p","s",":","/","/","w","w","w",".","r","e","u","t","e","r","s",".","c","o","m","/","w","o","r","l","d","/","e","u","r","o","p","e","/","t","a","l","k","s","-","r","e","s","u","m","e","-","2","0","2","4","-","0","1","-","0","5","/">>
HREF_aljazeera == <<"h","t","t","p","s",":","/","/","w","w","w",".","a","l","j","a","z","e","e","r","a",".","n","e","t","/","a","r","a","b","i","c","/","n","e","w","s","/","2","0","2","4","/","1","/","5","/","t","a","l","k","s">>
HREF_empty == <<>>

Hrefs ==
    { HREF_dated, HREF_news, HREF_slug, HREF_about, HREF_worlddir, HREF_tagslug,
      HREF_pdfslug, HREF_login, HREF_frag, HREF_cnn, HREF_nyt, HREF_bbc, HREF_guardian,
      HREF_reuters, HREF_aljazeera, HREF_empty }

\* scheme://netloc of a base URL
SchemeAndHost(base) ==
    SubSeq(base, 1, FirstOf(base, {":"})) \o <<"/","/">> \o Netloc(base)

\* urljoin(base, href) for a base whose path is empty and an href that is
\* absolute, root-relative, fragment-only, empty or a plain relative path
urljoin(base, href) ==
    IF href = <<>> THEN base
    ELSE IF HasScheme(href) THEN href
    ELSE IF Head(href) = "/" THEN SchemeAndHost(base) \o href
    ELSE IF Head(href) = "#" THEN SubSeq(base, 1, FirstOf(base, {"#"}) - 1) \o href
    ELSE SchemeAndHost(base) \o <<"/">> \o href

\* An anchor of a listing page: its href attribute, the word count of its text,
\* whether it is the first a[href] of an h1/h2, and which card selector it matches.
Anchor(h, w, hd, c) == [href |-> h, words |-> w, heading |-> hd, cls |-> c]

AnchorPool ==
    { Anchor(HREF_dated, 5, TRUE, "plain"),
      Anchor(HREF_news, 2, TRUE, "plain"),
      Anchor(HREF_slug, 3, FALSE, "card"),
      Anchor(HREF_about, 1, FALSE, "plain"),
      Anchor(HREF_about, 5, FALSE, "promo"),
      Anchor(HREF_worlddir, 4, FALSE, "plain"),
      Anchor(HREF_tagslug, 2, FALSE, "plain"),
      Anchor(HREF_pdfslug, 1, FALSE, "plain"),
      Anchor(HREF_login, 1, FALSE, "plain"),
      Anchor(HREF_frag, 1, TRUE, "plain"),
      Anchor(HREF_cnn, 4, FALSE, "headline"),
      Anchor(HREF_empty, 4, TRUE, "plain") }

\* --------------------------------------------- collect_article_links

\* The value of a one-element set. An intermediate result bound as the element
\* of {e} is computed once, however often the code's later lines read it.
The(S) == CHOOSE x \in S : TRUE

\* one pass of a loop body: if full in seen: continue; if <test>: seen.add(full);
\* links.append(full); if len(links) >= limit: return / break
AddCandidate(c, st, limit) ==
    IF st.ret \/ c.full \in st.seen \/ ~c.ok THEN st
    ELSE [links |-> Append(st.links, c.full),
          seen |-> st.seen \cup {c.full},
          ret |-> Len(st.links) + 1 >= limit]

\* the state after the first i candidates of a loop
RECURSIVE AddCandidates(_, _, _, _)
AddCandidates(cands, i, st0, limit) ==
    IF i = 0 THEN st0
    ELSE The({AddCandidate(cands[i], st, limit) :
                 st \in {AddCandidates(cands, i - 1, st0, limit)}})

\* urljoin, is_probable_article and the tier-4 test are pure: they are tabulated
\* once over the site URLs, hrefs and word counts of the model.
FullUrl == [s \in SiteSet, h \in Hrefs |-> urljoin(s, h)]
FullUrls == {FullUrl[s, h] : s \in SiteSet, h \in Hrefs}
Probable == [u \in FullUrls, w \in 0..MaxWords |-> is_probable_article(u, w)]

\* tier 4: path and path.count("-") >= 2 and len(path) > 25
is_long_slug(full) == UrlPath(full) # <<>> /\ HyphenSlug(UrlPath(full))
LongSlug == [u \in FullUrls |-> is_long_slug(u)]

\* the anchors of a tier, each with its absolute URL and the tier's test
ProbableCands(site_url, anchors) ==
    [i \in 1..Len(anchors) |->
        LET full == FullUrl[site_url, anchors[i].href] IN
        [full |-> full, ok |-> Probable[full, anchors[i].words]]]

SlugCands(site_url, anchors) ==
    [i \in 1..Len(anchors) |->
        LET full == FullUrl[site_url, anchors[i].href] IN
        [full |-> full, ok |-> LongSlug[full]]]

IsHeading(a) == a.heading
HasHref(a) == a.href # <<>>
IsCard(a) == a.cls = "card" /\ HasHref(a)
IsPromo(a) == a.cls = "promo" /\ HasHref(a)
IsHeadline(a) == a.cls = "headline" /\ HasHref(a)

\* 4) final fallback: long hyphen slugs, entered when fewer than limit links
FinalFallback(st3, cands, limit) ==
    IF ~st3.ret /\ Len(st3.links) < limit
    THEN The({AddCandidates(cs, Len(cs), st3, limit) : cs \in {cands}})
    ELSE st3

\* The loops of tiers 1 to 3 run one after another on the same links and seen,
\* and a return in any of them ends the function: one loop over their anchors.
\* 1) headlines inside h1/h2; 2) a.card, a.promo, .headline a, a[href];
\* 3) fallback: all anchors
TieredAnchors(page) ==
    SelectSeq(page, IsHeading) \o SelectSeq(page, IsCard) \o SelectSeq(page, IsPromo)
        \o SelectSeq(page, IsHeadline) \o SelectSeq(page, HasHref) \o page

collect_article_links(r, site_url, limit) ==
    IF ~r.ok THEN <<>> ELSE
    The({ FinalFallback(st3, SlugCands(site_url, r.content), limit).links :
            st3 \in { AddCandidates(cs, Len(cs), [links |-> <<>>, seen |-> {}, ret |-> FALSE], limit) :
                        cs \in {ProbableCands(site_url, TieredAnchors(r.content))} } })

\* ------------------------------------------------------- article pages

\* A paragraph <p>: the length and word count of p.get_text(" ", strip=True),
\* whether its lowercased text contains one of BAD_PHRASES, and whether it
\* ends with ":".
Para(n, w, bad, colon) == [len |-> n, words |-> w, bad |-> bad, colon |-> colon]

P_empty == Para(0, 0, FALSE, FALSE)
P_39 == Para(39, 7, FALSE, FALSE)
P_40 == Para(40, 7, FALSE, FALSE)
P_90 == Para(90, 15, FALSE, FALSE)
P_200 == Para(200, 33, FALSE, FALSE)
P_advert == Para(60, 9, TRUE, FALSE)      \* "... advertisement ..."
P_label == Para(45, 5, FALSE, TRUE)       \* "...:" with at most 6 words

ParaPool == {P_empty, P_39, P_40, P_90, P_200, P_advert, P_label}

\* A title text after whitespace normalisation, as its words; "-" is a word
\* that is one of the separator characters of clean_title's pattern.
NA == <<"N/A">>

\* clean_title: re.sub(r"\s+[sep]\s+.*$", "", t) cuts at the first separator
\* that has a word before it and a word after it
CutAt(text, cuts) ==
    IF cuts = {} THEN text
    ELSE SubSeq(text, 1, (CHOOSE i \in cuts : \A j \in cuts : i <= j) - 1)

clean_title(text) ==
    IF text = <<>> THEN NA
    ELSE CutAt(text, {i \in 2..(Len(text) - 1) : text[i] = "-"})

\* h1, else og:title / twitter:title, else <title>, else "N/A"
extract_title_generic(soup) ==
    IF soup.h1 # <<>> THEN clean_title(soup.h1)
    ELSE IF soup.meta # <<>> THEN clean_title(soup.meta)
    ELSE IF soup.titletag # <<>> THEN clean_title(soup.titletag)
    ELSE NA

RECURSIVE SumLen(_)
SumLen(ps) == IF ps = <<>> THEN 0 ELSE Head(ps).len + SumLen(Tail(ps))

\* A text assembled by " ".join(paras).strip() is kept as the lengths of the
\* joined pieces; TextLen is len() of that text. (No piece is empty where the
\* code joins, so strip() removes nothing.)
JoinText(paras) == [i \in 1..Len(paras) |-> paras[i].len]

RECURSIVE SumSeq(_)
SumSeq(q) == IF q = <<>> THEN 0 ELSE Head(q) + SumSeq(Tail(q))

TextLen(text) == IF text = <<>> THEN 0 ELSE SumSeq(text) + (Len(text) - 1)

\* 1000 * math.log1p(n), rounded down, for n = 1..10
Log1pMilli == <<693, 1098, 1386, 1609, 1791, 1945, 2079, 2197, 2302, 2397>>

\* score_container, in thousandths
score_container(el) ==
    IF el.ps = <<>> THEN 0
    ELSE SumLen(el.ps) * (1000 + Log1pMilli[Len(el.ps)]) - el.links * 30000

MIN_SCORE == 180

ContainerTags == <<"article", "main", "section", "div">>

TagRank(t) == CHOOSE k \in 1..4 : ContainerTags[k] = t

\* candidates.append((sc, el)) for sc > 0, tag by tag
Candidates(soup) == {i \in 1..Len(soup.blocks) : score_container(soup.blocks[i]) > 0}

\* candidates.sort(key=score, reverse=True) is stable: block i comes before
\* block j when it scores higher, or scores the same and was appended earlier
\* (the tags in the order article, main, section, div; document order in a tag)
SortsBefore(blocks, i, j) ==
    \/ score_container(blocks[i]) > score_container(blocks[j])
    \/ /\ score_container(blocks[i]) = score_container(blocks[j])
       /\ \/ TagRank(blocks[i].tag) < TagRank(blocks[j].tag)
          \/ TagRank(blocks[i].tag) = TagRank(blocks[j].tag) /\ i < j

\* best_score, best_el = candidates[0]; return best_el if best_score >= min_score
BestOrNone(soup, b) ==
    IF score_container(soup.blocks[b]) >= MIN_SCORE * 1000 THEN b ELSE 0

FirstCandidate(soup, cands) ==
    IF cands = {} THEN 0
    ELSE BestOrNone(soup,
            CHOOSE i \in cands : \A j \in cands \ {i} : SortsBefore(soup.blocks, i, j))

\* find_best_container: the index of the chosen block, 0 for None
find_best_container(soup) == FirstCandidate(soup, Candidates(soup))

MIN_LEN == 40
MAX_PARAS == 120

FirstN(q, n) == SubSeq(q, 1, Min(Len(q), n))

\* extract_paragraphs_from_el(el) with its default min_len and max_paras
Retained(p) ==
    /\ ~(p.len < MIN_LEN)
    /\ ~p.bad
    /\ ~(p.words <= 6 /\ p.colon)

extract_paragraphs_from_el(ps) == FirstN(SelectSeq(ps, Retained), MAX_PARAS)

RECURSIVE ConcatPs(_)
ConcatPs(blocks) == IF blocks = <<>> THEN <<>> ELSE Head(blocks).ps \o ConcatPs(Tail(blocks))

\* soup.find_all("p"): the paragraphs of the blocks, then those outside any block
AllPs(soup) == ConcatPs(soup.blocks) \o soup.loose

\* ---------------------------------------------------------------- dates

\* A date text found on a page or a parsed datetime: absent (None / ""),
\* garbage (dateutil raises on it), or a timestamp with or without a UTC
\* offset (in minutes).
AbsentDate ==
    [kind |-> "absent", y |-> 0, mo |-> 0, d |-> 0, h |-> 0, mi |-> 0, s |-> 0,
     tz |-> FALSE, off |-> 0]
GarbageDate == [AbsentDate EXCEPT !.kind = "garbage"]
Stamp(y, mo, d, h, mi, s, tz, off) ==
    [kind |-> "ts", y |-> y, mo |-> mo, d |-> d, h |-> h, mi |-> mi, s |-> s,
     tz |-> tz, off |-> off]

IsLeap(y) == (y % 4 = 0 /\ y % 100 # 0) \/ y % 400 = 0
DaysIn(y, mo) ==
    IF mo = 2 THEN (IF IsLeap(y) THEN 29 ELSE 28)
    ELSE IF mo \in {4, 6, 9, 11} THEN 30 ELSE 31

NextDay(t) ==
    IF t.d < DaysIn(t.y, t.mo) THEN [t EXCEPT !.d = t.d + 1]
    ELSE IF t.mo < 12 THEN [t EXCEPT !.d = 1, !.mo = t.mo + 1]
    ELSE [t EXCEPT !.d = 1, !.mo = 1, !.y = t.y + 1]

PrevDay(t) ==
    IF t.d > 1 THEN [t EXCEPT !.d = t.d - 1]
    ELSE IF t.mo > 1 THEN [t EXCEPT !.d = DaysIn(t.y, t.mo - 1), !.mo = t.mo - 1]
    ELSE [t EXCEPT !.d = 31, !.mo = 12, !.y = t.y - 1]

\* dt moved to minute m of its day, m counted from the day's midnight and
\* possibly in the day before or after
AtMinute(dt, m) ==
    [(IF m < 0 THEN PrevDay(dt) ELSE IF m >= 1440 THEN NextDay(dt) ELSE dt)
        EXCEPT !.h = ((m + 1440) % 1440) \div 60, !.mi = ((m + 1440) % 1440) % 60,
               !.tz = TRUE, !.off = 0]

\* mutant: the offset is added instead of subtracted
astimezone_utc_AddsOffset(dt) == AtMinute(dt, dt.h * 60 + dt.mi + dt.off)

\* dt.astimezone(timezone.utc) for an offset of less than a day
astimezone_utc(dt) == AtMinute(dt, dt.h * 60 + dt.mi - dt.off)

\* a number in decimal, and in two digits
DigitChars == <<"0","1","2","3","4","5","6","7","8","9">>
RECURSIVE Dec(_)
Dec(n) == IF n < 10 THEN <<DigitChars[n + 1]>> ELSE Append(Dec(n \div 10), DigitChars[(n % 10) + 1])
Pad2(n) == <<DigitChars[(n \div 10) + 1], DigitChars[(n % 10) + 1]>>

\* strftime("%Y-%m-%d %H:%M:%S"): the text, the offset dropped. %Y is the C
\* library's: CPython on glibc writes the year without leading zeros, "99" for
\* the year 99 (datetime(99, 1, 1).strftime("%Y-%m-%d") is "99-01-01").
strftime(dt) ==
    Dec(dt.y) \o <<"-">> \o Pad2(dt.mo) \o <<"-">> \o Pad2(dt.d) \o <<" ">>
        \o Pad2(dt.h) \o <<":">> \o Pad2(dt.mi) \o <<":">> \o Pad2(dt.s)

\* A published value is <<>> (None / NULL) or <<t>> with t the formatted text.
Null == <<>>

\* if dt.tzinfo is None: dt.replace(tzinfo=utc) else: dt.astimezone(utc)
ToUtc(dt) == IF dt.tz THEN astimezone_utc(dt) ELSE [dt EXCEPT !.tz = TRUE, !.off = 0]

\* the year leaves 1..9999: OverflowError, caught, None
FormatUtc(dt_utc) == IF dt_utc.y < 1 \/ dt_utc.y > 9999 THEN Null ELSE <<strftime(dt_utc)>>

normalize_date_to_mysql(dt_raw) ==
    IF dt_raw.kind = "absent" THEN Null
    ELSE IF dt_raw.kind = "garbage" THEN Null
    ELSE FormatUtc(ToUtc(dt_raw))

\* the number a run of digits denotes
RECURSIVE DigitsValue(_)
DigitsValue(q) ==
    IF q = <<>> THEN 0
    ELSE 10 * DigitsValue(SubSeq(q, 1, Len(q) - 1))
         + (CHOOSE n \in 0..9 : <<"0","1","2","3","4","5","6","7","8","9">>[n + 1] = q[Len(q)])

\* the maximal runs of digits of a text, in order (the numeric tokens of
\* dateutil's lexer for a text whose other characters are "-", " " and ":")
RECURSIVE SplitRuns(_, _, _)
SplitRuns(s, cur, acc) ==
    IF s = <<>> THEN (IF cur = <<>> THEN acc ELSE Append(acc, cur))
    ELSE IF Head(s) \in Digits THEN SplitRuns(Tail(s), Append(cur, Head(s)), acc)
    ELSE SplitRuns(Tail(s), <<>>, IF cur = <<>> THEN acc ELSE Append(acc, cur))

NumberRuns(text) == SplitRuns(text, <<>>, <<>>)

\* the year in which the process imported dateutil (parserinfo._year)
ThisYear == 2026

\* parserinfo.convertyear: a year below 100 written with one or two digits is
\* moved into the century around the current year
InCentury(year) ==
    IF year >= ThisYear + 50 THEN year - 100
    ELSE IF year < ThisYear - 50 THEN year + 100
    ELSE year

convertyear(year, century_specified) ==
    IF year < 100 /\ ~century_specified
    THEN InCentury(year + (ThisYear \div 100) * 100)
    ELSE year

\* _ymd.resolve_ymd for three numbers a-b-c without a month name, dayfirst
\* and yearfirst False; ystr: a was written with more than two digits
resolve_ymd(a, b, c, ystr) ==
    IF a > 31 \/ ystr THEN [y |-> a, mo |-> b, d |-> c]
    ELSE IF a > 12 THEN [y |-> c, mo |-> b, d |-> a]
    ELSE [y |-> c, mo |-> a, d |-> b]

\* default.replace(year, month, day, hour, minute, second): ValueError for a
\* day the month does not have
BuildNaive(year, ymd, h, mi, sec) ==
    IF year >= 1 /\ year <= 9999 /\ ymd.mo \in 1..12 /\ ymd.d >= 1
        /\ ymd.d <= DaysIn(year, ymd.mo) /\ h <= 23 /\ mi <= 59 /\ sec <= 59
    THEN [kind |-> "ts", y |-> year, mo |-> ymd.mo, d |-> ymd.d, h |-> h, mi |-> mi,
          s |-> sec, tz |-> FALSE, off |-> 0]
    ELSE [kind |-> "garbage", y |-> 0, mo |-> 0, d |-> 0, h |-> 0, mi |-> 0, s |-> 0,
          tz |-> FALSE, off |-> 0]

ParseResolved(ymd, ystr, h, mi, sec) ==
    BuildNaive(convertyear(ymd.y, ystr), ymd, h, mi, sec)

\* dateparser.parse of the six numbers of a "Y-M-D h:m:s" text
ParseRuns(nums) ==
    ParseResolved(
        resolve_ymd(DigitsValue(nums[1]), DigitsValue(nums[2]), DigitsValue(nums[3]),
                    Len(nums[1]) > 2),
        Len(nums[1]) > 2, DigitsValue(nums[4]), DigitsValue(nums[5]), DigitsValue(nums[6]))

\* dateparser.parse("Y-M-D"): a date, or an exception that is caught and
\* falls to return None
ParseYmd(y, mo, d) ==
    IF y >= 1 /\ mo \in 1..12 /\ d >= 1 /\ d <= DaysIn(y, mo)
    THEN Stamp(y, mo, d, 0, 0, 0, FALSE, 0)
    ELSE AbsentDate

\* the groups of the leftmost match of r"/(\d{4})/(\d{2})/(\d{2})/" in path
DateAtFirstMatch(path, hits) ==
    IF hits = {} THEN AbsentDate
    ELSE ParseYmd(DigitsValue(SubSeq(path, MinOf(hits) + 1, MinOf(hits) + 4)),
                  DigitsValue(SubSeq(path, MinOf(hits) + 6, MinOf(hits) + 7)),
                  DigitsValue(SubSeq(path, MinOf(hits) + 9, MinOf(hits) + 10)))

\* the /YYYY/MM/DD/ fallback of parse_published_generic
PathDate(path) == DateAtFirstMatch(path, {i \in 1..(Len(path) - 11) : DatePathAt(path, i)})

UrlDate(url) == PathDate(UrlPath(url))

\* parse_published_generic: the date texts of the page in lookup order (meta
\* tags, then <time>), the first that parses; else the date of the URL path
FirstParsed(parsed, url) == IF parsed # <<>> THEN Head(parsed) ELSE UrlDate(url)

parse_published_generic(soup, url) ==
    FirstParsed(SelectSeq(<<soup.meta_date, soup.time_date>>, LAMBDA t : t.kind = "ts"), url)

\* normalize_domain
StripWww(net) == IF StartsWith(net, <<"w","w","w",".">>) THEN SubSeq(net, 5, Len(net)) ELSE net

normalize_domain(url) == StripWww(Lower(Netloc(url)))

\* ----------------------------------------------------------- extraction

\* The dict every strategy returns: body is " ".join(paras).strip(), length is
\* len(body), source is normalize_domain(url).
MakeArticle(url, title, paras, published, lang) ==
    [url |-> url, title |-> title, body |-> JoinText(paras), published |-> published,
     length |-> TextLen(JoinText(paras)), source |-> normalize_domain(url),
     language |-> lang]

\* An extraction returns None, <<>>, or an Article a, <<a>>.
NoArticle == <<>>

MIN_TITLE_WORDS == 3
MIN_BODY_PARAS == 2
MIN_BODY_CHARS == 150
LONG_P == 80

\* detect(body_text), "unknown" when it raises
detect(soup) == IF soup.lang = "fail" THEN "unknown" ELSE soup.lang

\* paras = extract_paragraphs_from_el(container) if container else []
ContainerParas(soup, container) ==
    IF container # 0 THEN extract_paragraphs_from_el(soup.blocks[container].ps) ELSE <<>>

\* final fallback: long <p>
OrLongParas(soup, paras) ==
    IF paras = <<>>
    THEN FirstN(SelectSeq(AllPs(soup), LAMBDA q : q.len > LONG_P), MAX_PARAS)
    ELSE paras

\* the checks of lines 205-210 and the returned dict
GenericResult(url, soup, title, body_paras) ==
    IF title = NA \/ Len(title) < MIN_TITLE_WORDS THEN NoArticle
    ELSE IF Len(body_paras) < MIN_BODY_PARAS
            \/ TextLen(JoinText(body_paras)) < MIN_BODY_CHARS
         THEN NoArticle
    ELSE <<MakeArticle(url, title, body_paras,
               normalize_date_to_mysql(parse_published_generic(soup, url)),
               detect(soup))>>

extract_article_generic(r, url) ==
    IF ~r.ok THEN NoArticle
    ELSE GenericResult(url, r.content, extract_title_generic(r.content),
             OrLongParas(r.content,
                 ContainerParas(r.content, find_best_container(r.content))))

\* soup.select("sel p, sel p, ..."): the paragraphs of the blocks a selector of
\* the list matches, in document order. A selector is a tag and a class, ""
\* standing for any.
Matches(b, sels) ==
    \E sl \in sels : (sl.tag = "" \/ sl.tag = b.tag) /\ (sl.cls = "" \/ sl.cls = b.cls)

Sel(t, c) == [tag |-> t, cls |-> c]

SelectPs(soup, sels) == ConcatPs(SelectSeq(soup.blocks, LAMBDA b : Matches(b, sels)))

NonEmpty(ps) == SelectSeq(ps, LAMBDA q : q.len > 0)
LongerThan(ps, n) == SelectSeq(ps, LAMBDA q : q.len > n)

\* published_norm = normalize(published) if published else
\*                  normalize(parse_published_generic(soup, url))
SitePublished(published, soup, url) ==
    IF published.kind # "absent" THEN normalize_date_to_mysql(published)
    ELSE normalize_date_to_mysql(parse_published_generic(soup, url))

\* the tail every site-specific strategy shares: if len(body) < 150: return None
SiteArticle(url, soup, paras, published, lang) ==
    IF TextLen(JoinText(paras)) < MIN_BODY_CHARS THEN NoArticle
    ELSE <<MakeArticle(url, extract_title_generic(soup), paras,
               SitePublished(published, soup, url), lang)>>

\* the text of a whole element, as one piece
WholeText(b) ==
    Para(TextLen(JoinText(NonEmpty(b.ps))),
         SumSeq([i \in 1..Len(b.ps) |-> b.ps[i].words]), FALSE, FALSE)

Texts(els) == [i \in 1..Len(els) |-> WholeText(els[i])]

\* for sel in selectors: paras gets the non-empty texts of soup.select(sel);
\* if len(paras) >= 4: break
NextSelector(paras, more) == IF Len(paras) >= 4 THEN paras ELSE paras \o more

\* if not paras: extract_paragraphs_from_el(soup.select_one("article")) or []
OrArticleParas(paras, article_els) ==
    IF paras # <<>> THEN paras
    ELSE IF article_els # <<>> THEN extract_paragraphs_from_el(Head(article_els).ps)
    ELSE <<>>

\* "div.l-container article p" needs an article nested in a div: a page of
\* the model has none, so the first selector selects nothing
CnnParas(soup) ==
    NextSelector(
        NextSelector(
            NextSelector(<<>>, NonEmpty(SelectPs(soup, {Sel("div", "pg-rail-tall__body")}))),
            NonEmpty(SelectPs(soup, {Sel("article", "")}))),
        NonEmpty(Texts(SelectSeq(soup.blocks,
            LAMBDA b : Matches(b, {Sel("div", "zn-body__paragraph")})))))

scrape_cnn(r, url) ==
    IF ~r.ok THEN NoArticle
    ELSE SiteArticle(url, r.content,
             OrArticleParas(CnnParas(r.content),
                 SelectSeq(r.content.blocks, LAMBDA b : b.tag = "article")),
             r.content.meta_date, "en")

scrape_bbc(r, url) ==
    IF ~r.ok THEN NoArticle
    ELSE SiteArticle(url, r.content,
             LongerThan(SelectPs(r.content,
                 {Sel("article", ""), Sel("", "ssrcss-uf6wea-RichTextComponentWrapper"),
                  Sel("", "story-body__inner")}), 40),
             r.content.time_date, "en")

scrape_nytimes(r, url) ==
    IF ~r.ok THEN NoArticle
    ELSE SiteArticle(url, r.content,
             LongerThan(SelectPs(r.content,
                 {Sel("section", "articleBody"), Sel("", "css-53u6y8"),
                  Sel("article", "")}), 30),
             r.content.time_date, "en")

scrape_guardian(r, url) ==
    IF ~r.ok THEN NoArticle
    ELSE SiteArticle(url, r.content,
             LongerThan(SelectPs(r.content,
                 {Sel("div", "articleBody"), Sel("article", ""),
                  Sel("", "content__article-body")}), 30),
             r.content.time_date, "en")

\* meta article:published_time, else the first <time datetime>
ReutersPublished(soup) ==
    IF soup.meta_date.kind # "absent" THEN soup.meta_date ELSE soup.time_date

scrape_reuters(r, url) ==
    IF ~r.ok THEN NoArticle
    ELSE SiteArticle(url, r.content,
             LongerThan(SelectPs(r.content,
                 {Sel("div", "ArticleBodyWrapper"), Sel("", "article-body__content"),
                  Sel("", "StandardArticleBody_body"), Sel("article", "")}), 30),
             ReutersPublished(r.content), "en")

\* lang = "ar" if "aljazeera.net" in normalize_domain(url) and "/arabic" in url
AljazeeraLang(url) ==
    IF Contains(normalize_domain(url), <<"a","l","j","a","z","e","e","r","a",".","n","e","t">>) /\ Contains(url, <<"/","a","r","a","b","i","c">>)
    THEN "ar" ELSE "en"

scrape_aljazeera(r, url) ==
    IF ~r.ok THEN NoArticle
    ELSE SiteArticle(url, r.content,
             LongerThan(SelectPs(r.content, {Sel("div", "wysiwyg"), Sel("article", "")}), 30),
             r.content.time_date, AljazeeraLang(url))

\* SITE_SCRAPERS, in insertion order
SITE_KEYS ==
    << <<"c","n","n",".","c","o","m">>, <<"b","b","c",".","c","o","m">>, <<"n","y","t","i","m","e","s",".","c","o","m">>, <<"t","h","e","g","u","a","r","d","i","a","n",".","c","o","m">>,
       <<"r","e","u","t","e","r","s",".","c","o","m">>, <<"a","l","j","a","z","e","e","r","a",".","n","e","t">> >>

SiteScraper(k, r, url) ==
    IF k = 1 THEN scrape_cnn(r, url)
    ELSE IF k = 2 THEN scrape_bbc(r, url)
    ELSE IF k = 3 THEN scrape_nytimes(r, url)
    ELSE IF k = 4 THEN scrape_guardian(r, url)
    ELSE IF k = 5 THEN scrape_reuters(r, url)
    ELSE scrape_aljazeera(r, url)

\* the first key of SITE_SCRAPERS that is a substring of the domain, 0 for none
FirstKeyIn(domain) ==
    IF \E k \in 1..Len(SITE_KEYS) : Contains(domain, SITE_KEYS[k])
    THEN MinOf({k \in 1..Len(SITE_KEYS) : Contains(domain, SITE_KEYS[k])})
    ELSE 0

SiteKey(url) == FirstKeyIn(normalize_domain(url))

\* `boom` says that parsing the fetched page raises: a site-specific
\* strategy's exception is caught by extract_article and gives None, the
\* generic strategy's exception escapes to the caller.
Dispatch(k, r, url, boom) ==
    IF k # 0
    THEN [raised |-> FALSE, art |-> IF boom /\ r.ok THEN NoArticle ELSE SiteScraper(k, r, url)]
    ELSE IF boom /\ r.ok THEN [raised |-> TRUE, art |-> NoArticle]
         ELSE [raised |-> FALSE, art |-> extract_article_generic(r, url)]

extract_article(r, url, boom) == Dispatch(SiteKey(url), r, url, boom)

\* ---------------------------------------------------------- persistence

\* mutant: published=VALUES(published), without COALESCE
OnDuplicateKeyUpdate_NoCoalesce(old, row) == row

\* mutant: length is left as stored, length=length
OnDuplicateKeyUpdate_KeepLength(old, row) ==
    [url |-> old.url,
     title |-> row.title,
     body |-> row.body,
     published |-> IF row.published # Null THEN row.published ELSE old.published,
     length |-> old.length,
     source |-> row.source,
     language |-> row.language]

\* ON DUPLICATE KEY UPDATE: every column takes the incoming value, published
\* only when the incoming value is not NULL; url is the key and stays
OnDuplicateKeyUpdate(old, row) ==
    [url |-> old.url,
     title |-> row.title,
     body |-> row.body,
     published |-> IF row.published # Null THEN row.published ELSE old.published,
     length |-> row.length,
     source |-> row.source,
     language |-> row.language]

\* mutant: no UNIQUE key on url, every row is inserted
InsertOrUpdate_NoUniqueKey(tbl, row) == Append(tbl, row)

\* INSERT ... ON DUPLICATE KEY UPDATE of one row, url being UNIQUE
InsertOrUpdate(tbl, row) ==
    IF \E i \in 1..Len(tbl) : tbl[i].url = row.url
    THEN [i \in 1..Len(tbl) |->
            IF tbl[i].url = row.url THEN OnDuplicateKeyUpdate(tbl[i], row) ELSE tbl[i]]
    ELSE Append(tbl, row)

\* cursor.executemany(sql, rows): the rows in order
RECURSIVE executemany(_, _)
executemany(tbl, rows) ==
    IF rows = <<>> THEN tbl ELSE executemany(InsertOrUpdate(tbl, Head(rows)), Tail(rows))

\* the steps of save_to_mysql_batch that can raise
DbSteps == {"connect", "cursor", "ensure_table", "executemany", "commit", "close_cursor"}

\* save_to_mysql_batch(records) on the committed table tbl, `fail` being "none"
\* or the step that raises: the committed table afterwards. An exception before
\* conn.commit() returns leaves the transaction uncommitted, and closing or
\* dropping the connection rolls it back.
save_table(tbl, records, fail) ==
    IF records = <<>> THEN tbl
    ELSE IF fail \in {"none", "close_cursor"} THEN executemany(tbl, records)
    ELSE tbl

\* the connection after the finally clause: cursor.close() then conn.close(),
\* inside one try whose first failure skips the rest
save_conn(conn, records, fail) ==
    IF records = <<>> THEN conn
    ELSE IF fail = "connect" THEN "none"
    ELSE IF fail = "cursor" THEN "open"          \* cursor is unbound: conn.close() is skipped
    ELSE IF fail = "close_cursor" THEN "open"    \* cursor.close() raised: conn.close() is skipped
    ELSE "closed"

\* ----------------------------------------------------------- scrape_all

\* dateparser.parse(str(published), fuzzy=True, tzinfos=TZINFOS) of a text
\* that strftime wrote: no offset in the text
ParseFormatted(t) == ParseRuns(NumberRuns(t))

\* scrape_all lines 600-606: a truthy published is normalized once more
renormalize_published(art) ==
    IF art.published # Null
    THEN [art EXCEPT !.published = normalize_date_to_mysql(ParseFormatted(art.published[1]))]
    ELSE [art EXCEPT !.published = Null]

\* lines 609-613: language detection if missing
redetect_language(art, soup) ==
    IF art.language = "unknown" THEN [art EXCEPT !.language = detect(soup)] ELSE art

\* mutant: the cap is tested with >, one article too many
CapReached_OffByOne(n, limit) == n > limit

\* if extracted >= per_site_limit: break
CapReached(n, limit) == n >= limit

\* mutant: the try is around the whole loop, an exception ends the run's loop
AfterSiteError_EndsLoop(i) == Len(Sites) + 1

\* except Exception: logged; the for loop goes on with the next site
AfterSiteError(i) == i + 1

\* ------------------------------------------- specification: classifier

FtIdle == ft_retries = 0 /\ ft_pc = "idle" /\ ft_log = <<>> /\ ft_result = NoResponse
ExIdle ==
    /\ ex_url = <<>> /\ ex_r = NoResponse /\ ex_boom = FALSE /\ ex_pc = "idle"
    /\ ex_out = [raised |-> FALSE, art |-> <<>>]
RunIdle ==
    /\ run_pc = "off" /\ runs = 0 /\ per_site_limit = 0 /\ site_i = 0
    /\ candidate_links = <<>> /\ link_i = 0 /\ extracted = 0 /\ results = <<>>
    /\ articles = <<>> /\ prev_articles = <<>> /\ last_batch = <<>> /\ db_conn = "none"
    /\ tried = 0 /\ visited = <<>> /\ accepted = <<>> /\ handed = <<>>
NdIdle == nd_raw = AbsentDate /\ nd_pc = "idle" /\ nd_out = Null /\ nd_again = Null
SvIdle ==
    /\ sv_records = <<>> /\ sv_pc = "idle" /\ sv_conn = "none" /\ sv_cursor = "none"
    /\ sv_table = <<>> /\ sv_txn = <<>> /\ sv_before = <<>> /\ sv_error = "none"
PaIdle == pa_href = <<>> /\ pa_text = 0 /\ pa_pc = "idle" /\ pa_verdict = FALSE
LkIdle ==
    lk_site = <<>> /\ lk_r = NoResponse /\ lk_limit = 0 /\ lk_pc = "idle" /\ lk_links = <<>>

\* the URLs is_probable_article is called with, and the empty href
ProbInputs == FullUrls \cup {<<>>}

InitProb ==
    /\ pa_href \in ProbInputs
    /\ pa_text \in 0..MaxWords
    /\ pa_pc = "start"
    /\ pa_verdict = FALSE
    /\ LkIdle /\ FtIdle /\ ExIdle /\ RunIdle /\ SvIdle /\ NdIdle

Classify ==
    /\ pa_pc = "start"
    /\ pa_verdict' = is_probable_article(pa_href, pa_text)
    /\ pa_pc' = "done"
    /\ UNCHANGED <<pa_href, pa_text, lk_vars, ft_vars, ex_vars, run_vars, sv_vars, nd_vars>>

NextProb == Classify

SpecProb == InitProb /\ [][NextProb]_vars

\* --------------------------------------- specification: link collection

RECURSIVE SeqsUpTo(_, _)
SeqsUpTo(S, n) ==
    IF n = 0 THEN {<<>>}
    ELSE SeqsUpTo(S, n - 1) \cup {Append(q, x) : q \in SeqsUpTo(S, n - 1), x \in S}

ListingPages == SeqsUpTo(AnchorPool, MaxAnchors)

InitLinks ==
    /\ lk_site \in SiteSet
    /\ lk_r \in {NoResponse} \cup {Response(p) : p \in ListingPages}
    /\ lk_limit \in 0..MaxLimit
    /\ lk_pc = "start"
    /\ lk_links = <<>>
    /\ PaIdle /\ FtIdle /\ ExIdle /\ RunIdle /\ SvIdle /\ NdIdle

CollectLinks ==
    /\ lk_pc = "start"
    /\ lk_links' = collect_article_links(lk_r, lk_site, lk_limit)
    /\ lk_pc' = "done"
    /\ UNCHANGED <<lk_site, lk_r, lk_limit, pa_vars, ft_vars, ex_vars, run_vars, sv_vars, nd_vars>>

NextLinks == CollectLinks

SpecLinks == InitLinks /\ [][NextLinks]_vars

\* ------------------------------------------------ specification: fetcher

InitFetch ==
    /\ ft_retries \in 0..MaxRetries
    /\ ft_pc = "loop"
    /\ ft_log = <<>>
    /\ ft_result = NoResponse
    /\ PaIdle /\ LkIdle /\ ExIdle /\ RunIdle /\ SvIdle /\ NdIdle

Fetch ==
    /\ \E ua \in HEADERS_POOL, outcome \in GetOutcomes : FetchAttempt(ua, outcome)
    /\ UNCHANGED <<pa_vars, lk_vars, ex_vars, run_vars, sv_vars, nd_vars>>

NextFetch == Fetch

\* every session.get returns or raises within its timeout and every sleep ends,
\* so an enabled loop iteration is eventually taken
SpecFetch == InitFetch /\ [][NextFetch]_vars /\ WF_vars(NextFetch)

\* --------------------------------------------- specification: extraction

Soup(t, blocks, loose, md, td, lang) ==
    [h1 |-> t.h1, meta |-> t.meta, titletag |-> t.titletag, blocks |-> blocks,
     loose |-> loose, meta_date |-> md, time_date |-> td, lang |-> lang]

Block(tag, cls, ps, links) == [tag |-> tag, cls |-> cls, ps |-> ps, links |-> links]

TitleOf(h1, meta, titletag) == [h1 |-> h1, meta |-> meta, titletag |-> titletag]
T_none == TitleOf(<<>>, <<>>, <<>>)
T_h1_two == TitleOf(<<"w", "w">>, <<>>, <<>>)
T_h1_three == TitleOf(<<"w", "w", "w">>, <<>>, <<>>)
T_h1_suffix == TitleOf(<<"w", "w", "w", "-", "w", "w">>, <<>>, <<>>)
T_h1_cut_short == TitleOf(<<"w", "w", "-", "w", "w">>, <<"w", "w", "w", "w">>, <<>>)
T_meta == TitleOf(<<>>, <<"w", "w", "w", "w">>, <<"w">>)
T_titletag == TitleOf(<<>>, <<>>, <<"w", "w", "w", "-", "w">>)
TitleChoices == {T_none, T_h1_two, T_h1_three, T_h1_suffix, T_h1_cut_short, T_meta, T_titletag}

D_naive == Stamp(2024, 1, 5, 12, 0, 0, FALSE, 0)
D_offset == Stamp(2024, 2, 29, 22, 30, 0, TRUE, -300)
DateChoices == {AbsentDate, GarbageDate, D_naive, D_offset}

URL_dw_news == urljoin(SITE_DW, HREF_news)
URL_dw_dated == urljoin(SITE_DW, HREF_dated)
URL_cnn == HREF_cnn
URL_nyt == HREF_nyt
URL_bbc == HREF_bbc
URL_guardian == HREF_guardian
URL_reuters == HREF_reuters
URL_aljazeera == HREF_aljazeera
ArticleUrls ==
    {URL_dw_news, URL_dw_dated, URL_cnn, URL_nyt, URL_bbc, URL_guardian, URL_reuters,
     URL_aljazeera}

ExtractPool == ParaPool \ {P_empty}

\* pages that vary the body: one block of up to MaxParas paragraphs, with few
\* or many links in it
BodyPages ==
    {Soup(T_h1_three, <<Block(tag, "", ps, links)>>, <<>>, AbsentDate, AbsentDate, "en") :
        tag \in {"article", "div"}, ps \in SeqsUpTo(ExtractPool, MaxParas), links \in {0, 12}}

\* pages that vary the title, the dates and the language
HeadPages ==
    {Soup(t, <<Block("article", "", ps, 0)>>, <<P_empty>>, md, td, lang) :
        t \in TitleChoices, ps \in {<<P_90, P_90>>, <<P_200>>}, md \in DateChoices,
        td \in {AbsentDate, D_naive}, lang \in {"en", "fail"}}

ArticlePages == BodyPages \cup HeadPages

InitExtract ==
    /\ ex_url \in ArticleUrls
    /\ ex_r \in {NoResponse} \cup {Response(pg) : pg \in ArticlePages}
    /\ ex_boom \in BOOLEAN
    /\ ex_pc = "start"
    /\ ex_out = [raised |-> FALSE, art |-> <<>>]
    /\ PaIdle /\ LkIdle /\ FtIdle /\ RunIdle /\ SvIdle /\ NdIdle

Extract ==
    /\ ex_pc = "start"
    /\ ex_out' = extract_article(ex_r, ex_url, ex_boom)
    /\ ex_pc' = "done"
    /\ UNCHANGED <<ex_url, ex_r, ex_boom, pa_vars, lk_vars, ft_vars, run_vars, sv_vars, nd_vars>>

NextExtract == Extract

SpecExtract == InitExtract /\ [][NextExtract]_vars

\* ------------------------------------------------ specification: a run

\* the listing pages a site may serve during a run
RL_front == <<Anchor(HREF_news, 2, TRUE, "plain"), Anchor(HREF_cnn, 4, FALSE, "headline")>>
RL_dated == <<Anchor(HREF_dated, 5, TRUE, "plain"), Anchor(HREF_tagslug, 2, FALSE, "plain")>>
RL_wire ==
    <<Anchor(HREF_bbc, 3, TRUE, "plain"), Anchor(HREF_nyt, 3, FALSE, "card"),
      Anchor(HREF_guardian, 2, FALSE, "promo"), Anchor(HREF_reuters, 3, FALSE, "headline"),
      Anchor(HREF_aljazeera, 2, FALSE, "plain")>>
RL_empty == <<Anchor(HREF_about, 1, FALSE, "plain")>>
\* per site of Sites
RunListings == << {RL_front, RL_dated, RL_empty}, {RL_front, RL_wire} >>

\* the article pages a link may serve during a run
RP_full ==
    Soup(T_h1_suffix, <<Block("article", "", <<P_90, P_90>>, 0)>>, <<>>, D_offset, AbsentDate, "en")
RP_undated ==
    Soup(T_meta, <<Block("div", "", <<P_40, P_90, P_90>>, 0)>>, <<>>, GarbageDate, AbsentDate, "fail")
RP_untitled ==
    Soup(T_none, <<Block("article", "", <<P_200>>, 0)>>, <<>>, AbsentDate, D_naive, "en")
RunPages == {RP_full, RP_undated, RP_untitled}

Init ==
    /\ run_pc = "idle"
    /\ runs = 0
    /\ per_site_limit \in 0..MaxPerSite
    /\ site_i = 0
    /\ candidate_links = <<>>
    /\ link_i = 0
    /\ extracted = 0
    /\ results = <<>>
    /\ articles = <<>>
    /\ prev_articles = <<>>
    /\ last_batch = <<>>
    /\ db_conn = "none"
    /\ tried = 0
    /\ visited = <<>>
    /\ accepted = <<>>
    /\ handed = <<>>
    /\ PaIdle /\ LkIdle /\ FtIdle /\ ExIdle /\ SvIdle /\ NdIdle

others == <<pa_vars, lk_vars, ft_vars, ex_vars, sv_vars, nd_vars>>
db_vars == <<articles, prev_articles, last_batch, db_conn>>

\* run_scraper is called (once, or by the scheduler): scrape_all starts with a
\* new session and an empty results list
StartRun ==
    /\ run_pc = "idle"
    /\ runs < MaxRuns
    /\ runs' = runs + 1
    /\ results' = <<>>
    /\ site_i' = 1
    /\ candidate_links' = <<>>
    /\ link_i' = 0
    /\ extracted' = 0
    /\ run_pc' = "site"
    /\ tried' = 0
    /\ visited' = <<>>
    /\ accepted' = <<>>
    /\ handed' = <<>>
    /\ UNCHANGED <<per_site_limit, db_vars, others>>

\* for site in sites: candidate_links = collect_article_links(...); extracted = 0.
\* An exception raised while the listing page is parsed is caught by the
\* site's try and the loop goes on with the next site.
SiteBegin ==
    /\ run_pc = "site"
    /\ site_i <= Len(Sites)
    /\ \E r \in {NoResponse} \cup {Response(pg) : pg \in RunListings[site_i]}, boom \in BOOLEAN :
          IF boom /\ r.ok
          THEN /\ site_i' = AfterSiteError(site_i)
               /\ run_pc' = "site"
               /\ UNCHANGED <<candidate_links, link_i, extracted>>
          ELSE /\ candidate_links' =
                     collect_article_links(r, Sites[site_i], per_site_limit * 8)
               /\ extracted' = 0
               /\ link_i' = 1
               /\ run_pc' = "links"
               /\ UNCHANGED site_i
    /\ tried' = 0
    /\ visited' = Append(visited, site_i)
    /\ UNCHANGED <<runs, per_site_limit, results, accepted, handed, db_vars, others>>

\* one iteration of `for link in candidate_links` that gets past the break
TryLink ==
    /\ run_pc = "links"
    /\ link_i <= Len(candidate_links)
    /\ ~CapReached(extracted, per_site_limit)
    /\ \E r \in {NoResponse} \cup {Response(pg) : pg \in RunPages}, boom \in BOOLEAN :
       \E out \in {extract_article(r, candidate_links[link_i], boom)} :
          IF out.raised
          THEN \* except Exception: logged, next site
               /\ site_i' = AfterSiteError(site_i)
               /\ run_pc' = "site"
               /\ UNCHANGED <<results, accepted, extracted, link_i>>
          ELSE IF out.art # NoArticle
          THEN /\ results' = Append(results,
                     redetect_language(renormalize_published(out.art[1]), r.content))
               /\ accepted' = Append(accepted,
                     redetect_language(renormalize_published(out.art[1]), r.content))
               /\ extracted' = extracted + 1
               /\ link_i' = link_i + 1
               /\ UNCHANGED <<site_i, run_pc>>
          ELSE /\ link_i' = link_i + 1
               /\ UNCHANGED <<results, accepted, extracted, site_i, run_pc>>
    /\ tried' = tried + 1
    /\ UNCHANGED <<runs, per_site_limit, candidate_links, visited, handed, db_vars, others>>

\* the link loop ends: the links are exhausted or extracted >= per_site_limit
SiteEnd ==
    /\ run_pc = "links"
    /\ link_i > Len(candidate_links) \/ CapReached(extracted, per_site_limit)
    /\ site_i' = site_i + 1
    /\ run_pc' = "site"
    /\ tried' = 0
    /\ UNCHANGED <<runs, per_site_limit, candidate_links, link_i, extracted, results,
                   visited, accepted, handed, db_vars, others>>

\* scrape_all returned a non-empty list and writing the CSV or the JSON-lines
\* export raises (to_csv, open and write raise on an I/O error: the file is not
\* writable, the disk is full). Nothing in run_scraper or in the scheduler loop
\* catches it: the process ends before save_to_mysql_batch is called.
ExportFails ==
    /\ run_pc = "site"
    /\ site_i > Len(Sites)
    /\ results # <<>>
    /\ run_pc' = "crashed"
    /\ UNCHANGED <<runs, per_site_limit, site_i, candidate_links, link_i, extracted,
                   results, tried, visited, accepted, handed, db_vars, others>>

\* scrape_all returned a non-empty list: the exports are written, then
\* save_to_mysql_batch(articles)
Persist ==
    /\ run_pc = "site"
    /\ site_i > Len(Sites)
    /\ results # <<>>
    /\ \E fail \in {"none"} \cup DbSteps :
          /\ articles' = save_table(articles, results, fail)
          /\ db_conn' = save_conn(db_conn, results, fail)
    /\ prev_articles' = articles
    /\ last_batch' = results
    /\ handed' = Append(handed, results)
    /\ run_pc' = "idle"
    /\ UNCHANGED <<runs, per_site_limit, site_i, candidate_links, link_i, extracted,
                   results, tried, visited, accepted, others>>

\* scrape_all returned an empty list: a warning, nothing is saved
NothingExtracted ==
    /\ run_pc = "site"
    /\ site_i > Len(Sites)
    /\ results = <<>>
    /\ run_pc' = "idle"
    /\ UNCHANGED <<runs, per_site_limit, site_i, candidate_links, link_i, extracted,
                   results, tried, visited, accepted, handed, db_vars, others>>

Next == StartRun \/ SiteBegin \/ TryLink \/ SiteEnd \/ ExportFails \/ Persist \/ NothingExtracted

Spec == Init /\ [][Next]_vars

\* ----------------------------------- specification: date normalisation

\* the dates, times of day and UTC offsets (in minutes) of the timestamps a
\* page can carry: the ends of months and years, a leap day, the first and the
\* last year, years written with fewer than four digits
DateDays ==
    {ymd \in {1, 12, 31, 99, 999, 2023, 2024, 9999} \X {1, 2, 3, 12} \X {1, 5, 28, 29, 31} :
        ymd[3] <= DaysIn(ymd[1], ymd[2])}
DateTimes == {<<0, 0, 0>>, <<0, 30, 15>>, <<10, 0, 0>>, <<23, 30, 59>>}
DateOffsets == {0, -300, 330, 840, -720}
DateInputs ==
    {AbsentDate, GarbageDate}
    \cup {Stamp(g[1], g[2], g[3], t[1], t[2], t[3], FALSE, 0) : g \in DateDays, t \in DateTimes}
    \cup {Stamp(g[1], g[2], g[3], t[1], t[2], t[3], TRUE, off) :
            g \in DateDays, t \in DateTimes, off \in DateOffsets}

InitDate ==
    /\ nd_raw \in DateInputs
    /\ nd_pc = "start"
    /\ nd_out = Null
    /\ nd_again = Null
    /\ PaIdle /\ LkIdle /\ FtIdle /\ ExIdle /\ RunIdle /\ SvIdle

\* an extraction strategy sets "published": normalize_date_to_mysql(...)
Normalize ==
    /\ nd_pc = "start"
    /\ nd_out' = normalize_date_to_mysql(nd_raw)
    /\ nd_pc' = "normalized"
    /\ UNCHANGED <<nd_raw, nd_again, pa_vars, lk_vars, ft_vars, ex_vars, run_vars, sv_vars>>

\* scrape_all, lines 600-606, on the article extraction returned
Renormalize ==
    /\ nd_pc = "normalized"
    /\ nd_again' = renormalize_published([published |-> nd_out]).published
    /\ nd_pc' = "renormalized"
    /\ UNCHANGED <<nd_raw, nd_out, pa_vars, lk_vars, ft_vars, ex_vars, run_vars, sv_vars>>

NextDate == Normalize \/ Renormalize

SpecDate == InitDate /\ [][NextDate]_vars

\* ------------------------------- specification: save_to_mysql_batch

\* mutant: the connection commits every statement as it is executed
Autocommit_On == TRUE

\* DB_CONFIG sets no autocommit, and mysql.connector's default is off: what
\* executemany writes is visible to others only after conn.commit()
Autocommit == FALSE

\* the record scrape_all appends for a link that serves page pg
StoredOf(pg, url) ==
    redetect_language(
        renormalize_published(extract_article(Response(pg), url, FALSE).art[1]), pg)

\* records a run can hand over, and tables earlier runs can have left
SaveRecords ==
    {StoredOf(RP_full, URL_dw_news), StoredOf(RP_undated, URL_dw_news),
     StoredOf(RP_full, URL_dw_dated)}
SaveBatches == SeqsUpTo(SaveRecords, 2)
SaveTables == {executemany(<<>>, q) : q \in SaveBatches}

InitSave ==
    /\ sv_records \in SaveBatches
    /\ sv_table \in SaveTables
    /\ sv_txn = sv_table
    /\ sv_before = sv_table
    /\ sv_pc = "call"
    /\ sv_conn = "none"
    /\ sv_cursor = "none"
    /\ sv_error = "none"
    /\ PaIdle /\ LkIdle /\ FtIdle /\ ExIdle /\ RunIdle /\ NdIdle

sv_rest == <<pa_vars, lk_vars, ft_vars, ex_vars, run_vars, nd_vars>>

\* a statement of the try block raised: control goes to the except clause
SvRaise(step) ==
    /\ sv_error' = step
    /\ sv_pc' = "except"

\* if not records: return
SvCall ==
    /\ sv_pc = "call"
    /\ sv_pc' = IF sv_records = <<>> THEN "done" ELSE "connect"
    /\ UNCHANGED <<sv_records, sv_conn, sv_cursor, sv_table, sv_txn, sv_before, sv_error,
                   sv_rest>>

\* conn = mysql.connector.connect(**DB_CONFIG)
SvConnect ==
    /\ sv_pc = "connect"
    /\ \/ sv_conn' = "open" /\ sv_pc' = "cursor" /\ UNCHANGED sv_error
       \/ SvRaise("connect") /\ UNCHANGED sv_conn
    /\ UNCHANGED <<sv_records, sv_cursor, sv_table, sv_txn, sv_before, sv_rest>>

\* cursor = conn.cursor()
SvCursor ==
    /\ sv_pc = "cursor"
    /\ \/ sv_cursor' = "open" /\ sv_pc' = "ensure_table" /\ UNCHANGED sv_error
       \/ SvRaise("cursor") /\ UNCHANGED sv_cursor
    /\ UNCHANGED <<sv_records, sv_conn, sv_table, sv_txn, sv_before, sv_rest>>

\* ensure_table(cursor): CREATE TABLE IF NOT EXISTS
SvEnsureTable ==
    /\ sv_pc = "ensure_table"
    /\ \/ sv_pc' = "executemany" /\ UNCHANGED sv_error
       \/ SvRaise("ensure_table")
    /\ UNCHANGED <<sv_records, sv_conn, sv_cursor, sv_table, sv_txn, sv_before, sv_rest>>

\* cursor.executemany(sql, rows): all rows are written in the transaction, or
\* a row raises after the k rows before it were written
SvExecuteMany ==
    /\ sv_pc = "executemany"
    /\ \/ /\ sv_txn' = executemany(sv_txn, sv_records)
          /\ sv_pc' = "commit"
          /\ UNCHANGED sv_error
       \/ \E k \in 0..(Len(sv_records) - 1) :
             /\ sv_txn' = executemany(sv_txn, SubSeq(sv_records, 1, k))
             /\ SvRaise("executemany")
    /\ sv_table' = IF Autocommit THEN sv_txn' ELSE sv_table
    /\ UNCHANGED <<sv_records, sv_conn, sv_cursor, sv_before, sv_rest>>

\* conn.commit(), then logging.info and on to the finally clause
SvCommit ==
    /\ sv_pc = "commit"
    /\ \/ sv_table' = sv_txn /\ sv_pc' = "finally" /\ UNCHANGED sv_error
       \/ SvRaise("commit") /\ UNCHANGED sv_table
    /\ UNCHANGED <<sv_records, sv_conn, sv_cursor, sv_txn, sv_before, sv_rest>>

\* except Exception as e: logging.exception(...)
SvExcept ==
    /\ sv_pc = "except"
    /\ sv_pc' = "finally"
    /\ UNCHANGED <<sv_records, sv_conn, sv_cursor, sv_table, sv_txn, sv_before, sv_error,
                   sv_rest>>

\* finally: try: cursor.close(); conn.close() except Exception: pass.
\* cursor.close() raises NameError when cursor was never bound, and may raise
\* on its own; either way conn.close() is skipped. conn.close() itself swallows
\* the errors of the quit command; closing rolls back what was not committed.
SvFinally ==
    /\ sv_pc = "finally"
    /\ IF sv_cursor = "none"
       THEN UNCHANGED <<sv_cursor, sv_conn, sv_txn, sv_error>>
       ELSE \/ /\ sv_cursor' = "closed"
               /\ sv_conn' = "closed"
               /\ sv_txn' = sv_table
               /\ UNCHANGED sv_error
            \/ /\ sv_error' = IF sv_error = "none" THEN "close_cursor" ELSE sv_error
               /\ UNCHANGED <<sv_cursor, sv_conn, sv_txn>>
    /\ sv_pc' = "done"
    /\ UNCHANGED <<sv_records, sv_table, sv_before, sv_rest>>

NextSave ==
    SvCall \/ SvConnect \/ SvCursor \/ SvEnsureTable \/ SvExecuteMany \/ SvCommit
    \/ SvExcept \/ SvFinally

\* every statement returns or raises: the function keeps taking steps
SpecSave == InitSave /\ [][NextSave]_vars /\ WF_vars(NextSave)

\* ------------------------------------------------------------ claims

\* the rows of a table or batch that have the given url
RowsOf(tbl, url) == {i \in 1..Len(tbl) : tbl[i].url = url}

\* the last save_to_mysql_batch call committed: every record of the batch is
\* in the table with the body it was handed in with last
Committed ==
    /\ last_batch # <<>>
    /\ \A k \in 1..Len(last_batch) :
          \E j \in RowsOf(articles, last_batch[k].url) :
              articles[j].body = last_batch[MaxOf(RowsOf(last_batch, last_batch[k].url))].body

\* C1: across a save_to_mysql_batch call every stored row stays; a row whose
\* published was non-null keeps a non-null published; and the published of a
\* row differs afterwards only if the batch has a record of that url with a
\* non-null published, in which case it is the published of the last such record.
C1_PublishedNeverNulled ==
    \A i \in 1..Len(prev_articles) :
        \E j \in RowsOf(articles, prev_articles[i].url) :
            /\ prev_articles[i].published # Null => articles[j].published # Null
            /\ articles[j].published # prev_articles[i].published =>
                 \E k \in RowsOf(last_batch, prev_articles[i].url) :
                     /\ last_batch[k].published # Null
                     /\ articles[j].published = last_batch[k].published
                     /\ \A m \in RowsOf(last_batch, prev_articles[i].url) :
                            m > k => last_batch[m].published = Null

\* C1 witness: a stored row with a published value was upserted by a committed
\* batch whose record of that url has no published value; the body was
\* replaced and the published value stayed.
C1_Witness ==
    /\ Committed
    /\ \E i \in 1..Len(prev_articles) :
          /\ prev_articles[i].published # Null
          /\ RowsOf(last_batch, prev_articles[i].url) # {}
          /\ \A k \in RowsOf(last_batch, prev_articles[i].url) :
                 last_batch[k].published = Null /\ last_batch[k].body # prev_articles[i].body
          /\ \E j \in RowsOf(articles, prev_articles[i].url) :
                 /\ articles[j].published = prev_articles[i].published
                 /\ articles[j].body # prev_articles[i].body

\* C2: the articles table never holds two rows with the same url.
C2_OneRowPerUrl ==
    \A i, j \in 1..Len(articles) : articles[i].url = articles[j].url => i = j

\* C2 witness: a committed batch that holds twice, with different bodies, a url
\* that was already stored; the table has as many rows as before.
C2_Witness ==
    /\ Committed
    /\ Len(articles) = Len(prev_articles)
    /\ \E a, b \in 1..Len(last_batch) :
          /\ a < b
          /\ last_batch[a].url = last_batch[b].url
          /\ last_batch[a].body # last_batch[b].body
          /\ RowsOf(prev_articles, last_batch[a].url) # {}

\* C3 (as claimed): every article a run accumulates, and every stored row, has
\* a title of at least 3 words that is not "N/A".
C3_TitlesHaveThreeWords ==
    /\ \A i \in 1..Len(results) : results[i].title # NA /\ Len(results[i].title) >= 3
    /\ \A j \in 1..Len(articles) : articles[j].title # NA /\ Len(articles[j].title) >= 3

\* C4 (as claimed): extract_article returns an Article only if its body was
\* assembled from at least 2 retained paragraphs and has at least 150
\* characters, whichever strategy the url dispatches to.
C4_BodyThresholds ==
    (ex_pc = "done" /\ ex_out.art # NoArticle) =>
        /\ Len(ex_out.art[1].body) >= 2
        /\ TextLen(ex_out.art[1].body) >= 150

\* C5 (as claimed): for a page in which every paragraph has fewer than 40
\* characters extract_article returns None, whichever strategy is used.
C5_ShortParagraphsRejected ==
    (ex_pc = "done" /\ ex_r.ok
        /\ \A i \in 1..Len(AllPs(ex_r.content)) : AllPs(ex_r.content)[i].len < 40)
    => ex_out.art = NoArticle

\* C6: length is the character count of body, for every article a run has
\* accumulated, for every record of the batch handed to save_to_mysql_batch
\* and for every stored row.
C6_LengthIsBodyLength ==
    /\ \A i \in 1..Len(results) : results[i].length = TextLen(results[i].body)
    /\ \A k \in 1..Len(last_batch) : last_batch[k].length = TextLen(last_batch[k].body)
    /\ \A j \in 1..Len(articles) : articles[j].length = TextLen(articles[j].body)

\* C6 witness: an update on conflict gave a stored row a body of another length,
\* and the row's length followed.
C6_Witness ==
    /\ Committed
    /\ \E i \in 1..Len(prev_articles) :
          \E j \in RowsOf(articles, prev_articles[i].url) :
              /\ TextLen(articles[j].body) # TextLen(prev_articles[i].body)
              /\ articles[j].length = TextLen(articles[j].body)
              /\ prev_articles[i].length = TextLen(prev_articles[i].body)

\* C7: fetch_url with the default retries=2 issues at most 3 GETs and returns;
\* it returns the response of the first GET answered 200 and issues none after
\* it; when every GET raised or answered another status it returns None, the
\* same value whatever the failures were.
C7_FetchInv ==
    /\ ft_retries = DefaultRetries => Len(ft_log) <= 3
    /\ \A i \in 1..(Len(ft_log) - 1) : ft_log[i].outcome # "200"
    /\ ft_pc = "done" =>
         IF \E i \in 1..Len(ft_log) : ft_log[i].outcome = "200"
         THEN ft_result = Response(<<>>)
         ELSE ft_result = NoResponse /\ Len(ft_log) = ft_retries + 1
    /\ ft_pc = "loop" => \A i \in 1..Len(ft_log) : ft_log[i].outcome # "200"

\* C7, with termination: the properties above hold in every state and every
\* call of fetch_url returns.
C7_FetchTerminates == []C7_FetchInv /\ <>(ft_pc = "done")

\* C7 witness: three failed GETs of different kinds, then None.
C7_Witness ==
    /\ ft_pc = "done" /\ ft_retries = DefaultRetries /\ Len(ft_log) = 3
    /\ ft_result = NoResponse
    /\ ft_log[1].outcome = "raise" /\ ft_log[3].outcome = "503"


\* C8 (as claimed): for every listing page and every limit >= 0 the list
\* collect_article_links returns has at most limit URLs.
C8_AtMostLimit == lk_pc = "done" => Len(lk_links) <= lk_limit

\* C9 (as claimed): every URL collect_article_links returns is the absolute URL
\* of an anchor of the page that is_probable_article accepts.
C9_AllProbable ==
    lk_pc = "done" =>
        \A i \in 1..Len(lk_links) :
            \E k \in 1..Len(lk_r.content) :
                /\ urljoin(lk_site, lk_r.content[k].href) = lk_links[i]
                /\ is_probable_article(lk_links[i], lk_r.content[k].words)

\* the rules of section 4.2, stated on the lowercased href and its path
NotRejectedByThree(href) ==
    /\ ~RejectedByExtension(Lower(href))
    /\ ~RejectedBySubstring(Lower(href))
    /\ ~RejectedBySection(UrlPath(Lower(href)))

SomeAcceptance(href, words) ==
    \/ HasDatePath(UrlPath(Lower(href)))
    \/ \E k \in POSITIVE_SIGNS : Contains(Lower(href), k)
    \/ Count(UrlPath(Lower(href)), "-") >= 2 /\ Len(UrlPath(Lower(href))) > 25
    \/ words >= 4

\* C10 (as claimed): is_probable_article accepts every link that none of the
\* three rejection rules rejects and that meets an acceptance condition.
C10_AcceptsUnlessThreeRules ==
    (pa_pc = "done" /\ pa_href # <<>> /\ NotRejectedByThree(pa_href)
        /\ SomeAcceptance(pa_href, pa_text)) => pa_verdict

\* C10 (amended): is_probable_article accepts every non-empty link that is
\* rejected neither by the three rules nor by the fourth rule of the code (a
\* path ending in "/" with at most 3 slashes) and meets an acceptance condition.
C10_AcceptsUnlessFourRules ==
    (pa_pc = "done" /\ pa_href # <<>> /\ NotRejectedByThree(pa_href)
        /\ ~RejectedByShallowDir(UrlPath(Lower(pa_href)))
        /\ SomeAcceptance(pa_href, pa_text)) => pa_verdict

\* C10 witness: a link accepted on its anchor text alone.
C10_Witness ==
    /\ pa_pc = "done" /\ pa_verdict /\ pa_text >= 4
    /\ NotRejectedByThree(pa_href)
    /\ ~SomeAcceptance(pa_href, 0)


\* the number of articles the run has accepted from the sites before the one
\* being processed, and from that one, never exceeds the cap
C11_CapInv ==
    /\ extracted <= per_site_limit
    /\ Len(accepted) <= per_site_limit * Len(visited)
    /\ run_pc = "links" =>
         Len(accepted) <= per_site_limit * (Len(visited) - 1) + extracted

\* C11: for every per_site_limit >= 0 the articles accepted from a site never
\* exceed per_site_limit, and extract_article is called for a candidate link
\* only while fewer than per_site_limit articles of the site are accepted.
C11_PerSiteCap ==
    []C11_CapInv /\ [][tried' = tried + 1 => extracted < per_site_limit]_vars

\* C11 witness: the cap is reached after a rejected and an accepted link while
\* candidate links of the site remain.
C11_Witness ==
    /\ run_pc = "links" /\ per_site_limit >= 1 /\ extracted = per_site_limit
    /\ tried >= 2 /\ link_i <= Len(candidate_links)

\* s is an initial segment of t
IsPrefix(s, t) == Len(s) <= Len(t) /\ SubSeq(t, 1, Len(s)) = s

\* the sites begun so far are the first sites of the configuration in its
\* order, each once, and the site loop is left only after the last one
C12_SitesInv ==
    /\ \A k \in 1..Len(visited) : visited[k] = k
    /\ run_pc = "site" => Len(visited) = site_i - 1
    /\ run_pc = "links" => Len(visited) = site_i /\ site_i <= Len(Sites)
    /\ run_pc = "crashed" \/ (run_pc = "idle" /\ runs > 0) => Len(visited) = Len(Sites)

\* C12: scrape_all begins every configured site, in configuration order,
\* whatever happened at the sites before (no response, no candidate links, no
\* article, an exception): each site is followed by the next one, and what
\* results holds stays in it, in place, until scrape_all returns.
C12_EverySiteAttempted ==
    /\ []C12_SitesInv
    /\ [][runs' = runs => /\ IsPrefix(results, results')
                          /\ site_i' \in {site_i, site_i + 1}]_vars

\* C12 witness: the first site gave an article, processing the second site
\* raised inside extract_article; both sites were begun and the article of
\* the first is in results when the loop is over.
C12_Witness ==
    /\ run_pc = "site" /\ site_i = Len(Sites) + 1 /\ tried >= 1
    /\ visited = <<1, 2>> /\ results # <<>>

\* C13 (as claimed): when save_to_mysql_batch has returned, a connection it
\* opened is closed, whichever step failed.
C13_ConnectionReleased == sv_pc = "done" => sv_conn # "open"

\* the steps of save_to_mysql_batch before conn.commit() has completed
BeforeCommitCompletes == {"connect", "cursor", "ensure_table", "executemany", "commit"}

C14_NothingCommitted == sv_error \in BeforeCommitCompletes => sv_table = sv_before

\* C14: when a step before the completion of conn.commit() raises, the
\* committed table is what it was at the call, during the rest of the call and
\* after it, and save_to_mysql_batch returns instead of raising.
C14_FailedBatchCommitsNothing == []C14_NothingCommitted /\ <>(sv_pc = "done")

\* C14 witness: executemany raised after it had written a row that differs
\* from what is stored, and the function returned with the table as it was.
C14_Witness ==
    /\ sv_pc = "done" /\ sv_error = "executemany" /\ sv_table = sv_before
    /\ Len(sv_records) = 2
    /\ executemany(sv_before, SubSeq(sv_records, 1, 1)) # sv_before

\* the number of the day y-mo-d, counted from 0001-01-01 as day 1
DaysBeforeMonth == <<0, 31, 59, 90, 120, 151, 181, 212, 243, 273, 304, 334>>
DayNumber(y, mo, d) ==
    365 * (y - 1) + ((y - 1) \div 4) - ((y - 1) \div 100) + ((y - 1) \div 400)
        + DaysBeforeMonth[mo] + (IF mo > 2 /\ IsLeap(y) THEN 1 ELSE 0) + d

\* An instant to the second: the day number, the minute of that day and the
\* second, of a wall-clock reading taken off minutes ahead of UTC.
InstantAt(y, mo, d, h, mi, sec, off) ==
    <<DayNumber(y, mo, d) + ((h * 60 + mi - off + 1440) \div 1440) - 1,
      (h * 60 + mi - off + 1440) % 1440, sec>>

\* the instant a parsed timestamp denotes; one without offset is taken as UTC
InstantOf(t) == InstantAt(t.y, t.mo, t.d, t.h, t.mi, t.s, IF t.tz THEN t.off ELSE 0)

\* the instant a "Y-M-D h:m:s" text denotes in UTC, its six numbers read as
\* year, month, day, hour, minute, second
InstantOfNumbers(n) ==
    InstantAt(DigitsValue(n[1]), DigitsValue(n[2]), DigitsValue(n[3]),
              DigitsValue(n[4]), DigitsValue(n[5]), DigitsValue(n[6]), 0)

InstantOfText(text) == InstantOfNumbers(NumberRuns(text))

\* the instants datetime can hold: 0001-01-01 00:00:00 to 9999-12-31 23:59:59
Representable(i) == i[1] >= DayNumber(1, 1, 1) /\ i[1] <= DayNumber(9999, 12, 31)

\* the empty and the unparseable input give null
NullForNoDate ==
    (nd_pc # "start" /\ nd_raw.kind \in {"absent", "garbage"}) => nd_out = Null

\* C15 (as claimed): normalize_date_to_mysql maps every timestamp with an
\* offset to the same instant in UTC, every timestamp without offset to the
\* same wall-clock value, and the empty and the unparseable input to null.
C15_SameInstantInUtc ==
    /\ NullForNoDate
    /\ (nd_pc # "start" /\ nd_raw.kind = "ts") =>
          /\ nd_out # Null
          /\ InstantOfText(nd_out[1]) = InstantOf(nd_raw)

\* C15 (amended): as claimed when the instant in UTC lies in the years 1 to
\* 9999; a timestamp whose offset moves it out of those years gives null.
C15_SameInstantWhenRepresentable ==
    /\ NullForNoDate
    /\ (nd_pc # "start" /\ nd_raw.kind = "ts") =>
          IF Representable(InstantOf(nd_raw))
          THEN nd_out # Null /\ InstantOfText(nd_out[1]) = InstantOf(nd_raw)
          ELSE nd_out = Null

\* C15 witness: 23:30:59 at -05:00 on 29 February 2024 became 04:30:59 of
\* 1 March 2024.
C15_Witness ==
    /\ nd_pc = "normalized" /\ nd_raw.kind = "ts" /\ nd_raw.tz /\ nd_raw.off = -300
    /\ nd_raw.y = 2024 /\ nd_raw.mo = 2 /\ nd_raw.d = 29 /\ nd_raw.h = 23
    /\ nd_out = <<<<"2","0","2","4","-","0","3","-","0","1"," ","0","4",":","3","0",":","5","9">>>>

\* C17 (as claimed): the second normalisation, the one scrape_all applies,
\* leaves every non-null published value as it is.
C17_RenormalizeIsIdentity ==
    (nd_pc = "renormalized" /\ nd_out # Null) => nd_again = nd_out

\* the run is over: run_scraper returned, or an exception left it
RunOver == runs > 0 /\ run_pc \in {"idle", "crashed"}

\* C16 (as claimed): the batch is handed to save_to_mysql_batch only after
\* every site was processed, at most once in a run, and it is the run's
\* accepted articles in acceptance order; when the run is over every article
\* it accepted has been handed over.
C16_BatchHandedOnce ==
    /\ Len(handed) <= 1
    /\ handed # <<>> => (Len(visited) = Len(Sites) /\ handed[1] = accepted)
    /\ (RunOver /\ accepted # <<>>) => handed = <<accepted>>

====
